---- MODULE Spec2Model ----
(***************************************************************************)
(* Parameter synchronisation and renderer selection of cases/common.js.    *)
(*                                                                         *)
(* JavaScript runs every handler to completion.  A page session is the     *)
(* synchronous run of main() (split here into its registration steps, no   *)
(* other action can run between them), followed by event handlers (widget  *)
(* edits, history navigation, dynamic import completions) and by the       *)
(* microtasks they queue, which drain before the next event is handled.    *)
(***************************************************************************)
EXTENDS Integers, Sequences, FiniteSets, TLC

\* ---------------------------------------------------------------- bounds
\* Re-evaluations whose WebGPU construction is outstanding at one time.
MaxTasks == 2

\* Parameters the environment acts on in one run: those with a URL entry at
\* load, edited in the widget panel, or changed by history navigation.
MaxTouched == 2

\* ------------------------------------------------------- JavaScript values
Null == [t |-> "null"]
NaN == [t |-> "nan"]
Absent == [t |-> "absent"]
Num(n) == [t |-> "num", n |-> n]
Bool(b) == [t |-> "bool", b |-> b]
Str(s) == [t |-> "str", s |-> s]

\* Strings are sequences of characters.
S_canvas == <<"c", "a", "n", "v", "a", "s">>
S_webgl == <<"w", "e", "b", "g", "l">>
S_webgpu == <<"w", "e", "b", "g", "p", "u">>
S_opengl == <<"o", "p", "e", "n", "g", "l">>
S_yes == <<"y", "e", "s">>
S_no == <<"n", "o">>
S_true == <<"t", "r", "u", "e">>
S_false == <<"f", "a", "l", "s", "e">>
S_point == <<"p", "o", "i", "n", "t">>
S_line == <<"l", "i", "n", "e">>
S_polygon == <<"p", "o", "l", "y", "g", "o", "n">>
S_1 == <<"1">>
S_10 == <<"1", "0">>
S_20000 == <<"2", "0", "0", "0", "0">>
S_500 == <<"5", "0", "0">>
S_750 == <<"7", "5", "0">>
S_50000 == <<"5", "0", "0", "0", "0">>
S_abc == <<"a", "b", "c">>

DigitChars == <<"0", "1", "2", "3", "4", "5", "6", "7", "8", "9">>

IsDigit(c) == \E i \in 1..10 : DigitChars[i] = c

DigitOf(c) == (CHOOSE i \in 1..10 : DigitChars[i] = c) - 1

RECURSIVE DigitsPrefix(_)
DigitsPrefix(s) ==
  IF s = <<>> \/ ~IsDigit(Head(s)) THEN <<>>
  ELSE <<Head(s)>> \o DigitsPrefix(Tail(s))

RECURSIVE DigitsValue(_, _)
DigitsValue(s, acc) ==
  IF s = <<>> THEN acc ELSE DigitsValue(Tail(s), acc * 10 + DigitOf(Head(s)))

\* parseFloat on the tokens of the model: an optional sign, then the longest
\* prefix of decimal digits; NaN when there is none (null reads as "null").
parseFloat(v) ==
  IF v.t # "str" THEN NaN
  ELSE LET s == v.s
           signed == s # <<>> /\ Head(s) \in {"-", "+"}
           neg == s # <<>> /\ Head(s) = "-"
           ds == DigitsPrefix(IF signed THEN Tail(s) ELSE s)
       IN IF ds = <<>> THEN NaN
          ELSE Num(IF neg THEN 0 - DigitsValue(ds, 0) ELSE DigitsValue(ds, 0))

RECURSIVE NatToString(_)
NatToString(n) ==
  IF n < 10 THEN <<DigitChars[n + 1]>>
  ELSE NatToString(n \div 10) \o <<DigitChars[(n % 10) + 1]>>

\* Number.prototype.toString of an integer; NaN prints as "NaN".
toString(v) ==
  IF v.t = "num"
  THEN (IF v.n < 0 THEN <<"-">> \o NatToString(0 - v.n) ELSE NatToString(v.n))
  ELSE <<"N", "a", "N">>

\* JavaScript truthiness of the values above.
Truthy(v) ==
  CASE v.t = "bool" -> v.b
    [] v.t = "num" -> v.n # 0
    [] v.t = "str" -> v.s # <<>>
    [] OTHER -> FALSE

\* ------------------------------------------------------------- parameters
Ids == {"renderer", "performance", "geometry", "count"}

SelectIds == {"renderer", "geometry"}

\* An id for a parameter registered with a function as its default value;
\* main registers none.
ActionId == "action"

\* The keys of the query string the page reads: the parameters' ids and the
\* debugRenderer switch.
QueryKeys == Ids \cup {"debugRenderer"}

\* The option values of a select parameter (the Set `allowed`).
Options(id) ==
  IF id = "renderer" THEN {S_canvas, S_webgl, S_webgpu}
  ELSE {S_point, S_line, S_polygon}

\* The `values` argument of registerGuiParameter.
Values(id) ==
  CASE id = "performance" -> <<Str(S_yes), Str(S_no)>>
    [] id = ActionId -> <<Absent>>
    [] OTHER -> <<Num(1), Num(20000), Num(1)>>

DefaultValue(id) ==
  CASE id = "renderer" -> Str(S_canvas)
    [] id = "performance" -> Bool(FALSE)
    [] id = "geometry" -> Str(S_point)
    [] id = "count" -> Num(10)
    [] id = ActionId -> [t |-> "fn"]

\* Tokens a URL of the model may hold for an id (null: no entry).
UrlTokens(id) ==
  CASE id = "renderer" -> {Null, Str(S_canvas), Str(S_webgl), Str(S_webgpu), Str(S_opengl)}
    [] id = "performance" -> {Null, Str(S_yes), Str(S_no), Str(S_true)}
    [] id = "geometry" -> {Null, Str(S_line), Str(S_false)}
    [] id = "count" -> {Null, Str(S_500), Str(S_abc)}

\* The value the numeric widget is dragged to (inside its range).
DragValues == {Num(750)}

VARIABLES
  url,          \* the query string: id -> token or null
  tracked,      \* Link's trackedValues: id -> token, null, or Absent (no handler)
  guiParams,    \* the guiParams table: id -> value, Absent when id is not in it
  changed,      \* the numeric widget holds an edit not yet finished
  layers,       \* the map's layer collection, in order
  tasks,        \* re-evaluations waiting for their WebGPU construction
  micro,        \* the microtask queue (continuations after an await)
  perf,         \* what enablePerformanceTracking has wrapped
  cb,           \* per parameter: the callback invocations of this session
  note,         \* the last line logActiveRenderer printed
  mainpc,       \* position of main()
  touched,      \* the query keys the environment acts on
  gpu,          \* the WebGPU builder: absent, available, or always failing
  debugRenderer \* the debugRenderer=1 flag of the URL

vars ==
  <<url, tracked, guiParams, changed, layers, tasks, micro, perf, cb, note,
    mainpc, touched, gpu, debugRenderer>>

NoCalls == [init |-> 0, first |-> "none", last |-> Null]

\* The page state right after the module is loaded, before main() runs.  The
\* fields reload and trace belong to one handler run: whether it called
\* location.reload(), and the calls it made, in order.
Fresh(u) ==
  [url |-> u,
   tracked |-> [i \in Ids |-> Absent],
   guiParams |-> [i \in Ids |-> Absent],
   changed |-> FALSE,
   layers |-> <<>>,
   tasks |-> <<>>,
   micro |-> <<>>,
   perf |-> "off",
   cb |-> [i \in Ids |-> NoCalls],
   note |-> Null,
   reload |-> FALSE,
   trace |-> <<>>]

\* The current page state as one record, for the handlers below.
Cur ==
  [url |-> url, tracked |-> tracked, guiParams |-> guiParams, changed |-> changed,
   layers |-> layers, tasks |-> tasks, micro |-> micro, perf |-> perf, cb |-> cb,
   note |-> note, reload |-> FALSE, trace |-> <<>>]

\* Saturation of the per-parameter count of initial callback invocations.
CallCap == 2

\* ------------------------------------------------------------ Link (URL)
\* link.track(id, handler): remembers the handler and the token now in the
\* URL, which it returns.
LinkTrack(s, id) == [s EXCEPT !.tracked[id] = s.url[id]]

\* link.update(id, token): rewrites the URL entry in place.
LinkUpdate(s, id, tok) ==
  [s EXCEPT !.url[id] = Str(tok),
            !.tracked[id] = IF @ = Absent THEN @ ELSE Str(tok),
            !.trace = Append(@, [e |-> "update", id |-> id, tok |-> Str(tok)])]

\* -------------------------------------------------------- getGuiParameterValue
\* Mutant: the URL entry of an unregistered id is returned as it is.
getGuiParameterValue_raw(s, id) ==
  IF s.guiParams[id] = Absent
  THEN LET raw == IF s.url[id] = Null THEN Str(<<>>) ELSE s.url[id]
       IN IF raw.s # <<>> THEN raw ELSE Null
  ELSE s.guiParams[id]

getGuiParameterValue(s, id) ==
  IF s.guiParams[id] = Absent
  THEN LET raw == IF s.url[id] = Null THEN Str(<<>>) ELSE s.url[id]
           asNumber == parseFloat(raw)
       IN IF asNumber # NaN THEN asNumber
          ELSE IF raw = Str(S_true) \/ raw = Str(S_false) THEN Bool(raw = Str(S_true))
          ELSE IF raw.s # <<>> THEN raw ELSE Null
  ELSE s.guiParams[id]

\* ------------------------------------------------------- renderer selector
logActiveRenderer(s, label) ==
  IF ~debugRenderer THEN s
  ELSE [s EXCEPT !.note =
          [label |-> label,
           layer |-> IF s.layers = <<>> THEN "none" ELSE s.layers[Len(s.layers)]]]

\* Mutant: the builders handed to createMap in the wrong order.
useWebGLCallback_swapped(s) == [s EXCEPT !.layers = Append(@, "VectorLayer")]

\* The builders main() hands to createMap.
useWebGLCallback(s) == [s EXCEPT !.layers = Append(@, "WebGLVectorLayer")]

\* Mutant: the canvas builder returns before it has added its layer.
useCanvasCallback_deferred(s) == s

useCanvasCallback(s) == [s EXCEPT !.layers = Append(@, "VectorLayer")]

\* The continuation of the WebGPU builder after its dynamic import.
useWebGPUCallback(s) == [s EXCEPT !.layers = Append(@, "WebGPUVectorLayer")]

\* The continuation of regenerateLayer after `await builder(map)`: the log
\* line it will print, with the requested mode of the re-evaluation, the
\* builder it has just called, whether its WebGPU attempt failed, and whether
\* a newer re-evaluation had started before the builder was called.
LogEntry(label, req, builder, failed, stale) ==
  [k |-> "log", label |-> label, req |-> req, builder |-> builder,
   failed |-> failed, stale |-> stale]

\* Mutant: the WebGL branch taken for mode webgl only, so that webgpu without
\* a WebGPU builder falls through to the canvas builder.
regenerateLayer_canvasWhenAbsent(s) ==
  LET old == s.tasks
      s0 == [s EXCEPT !.layers = <<>>,
                      !.tasks = [i \in DOMAIN old |-> [old[i] EXCEPT !.stale = TRUE]]]
      g == getGuiParameterValue(s0, "renderer")
      requested == IF Truthy(g) THEN g ELSE Str(S_canvas)
      s1 == [s0 EXCEPT !.trace = Append(@, [e |-> "regenerate", requested |-> requested])]
  IN IF requested = Str(S_webgpu) /\ gpu # "absent"
     THEN [s1 EXCEPT !.tasks = Append(@, [stale |-> FALSE])]
     ELSE IF requested = Str(S_webgl)
     THEN [useWebGLCallback(s1) EXCEPT
             !.micro = Append(@, LogEntry("renderer: webgl", requested, "webgl",
                                          FALSE, FALSE))]
     ELSE [useCanvasCallback(s1) EXCEPT
             !.micro = Append(@, LogEntry("renderer: canvas", requested, "canvas",
                                          FALSE, FALSE))]

\* regenerateLayer up to its first suspension: the clear, the read of the
\* requested mode, and either the start of the WebGPU construction or the
\* synchronous WebGL / canvas builder (whose log line waits for a microtask).
regenerateLayer(s) ==
  LET old == s.tasks
      s0 == [s EXCEPT !.layers = <<>>,
                      !.tasks = [i \in DOMAIN old |-> [old[i] EXCEPT !.stale = TRUE]]]
      g == getGuiParameterValue(s0, "renderer")
      requested == IF Truthy(g) THEN g ELSE Str(S_canvas)
      s1 == [s0 EXCEPT !.trace = Append(@, [e |-> "regenerate", requested |-> requested])]
  IN IF requested = Str(S_webgpu) /\ gpu # "absent"
     THEN [s1 EXCEPT !.tasks = Append(@, [stale |-> FALSE])]
     ELSE IF requested = Str(S_webgl) \/ requested = Str(S_webgpu)
     THEN [useWebGLCallback(s1) EXCEPT
             !.micro = Append(@, LogEntry("renderer: webgl", requested, "webgl",
                                          FALSE, FALSE))]
     ELSE [useCanvasCallback(s1) EXCEPT
             !.micro = Append(@, LogEntry("renderer: canvas", requested, "canvas",
                                          FALSE, FALSE))]

\* Mutant: the catch block returns without the WebGL fallback.
regenerateLayerCatch_noFallback(s, stale) ==
  logActiveRenderer(s, "renderer: webgpu (fallback: webgl)")

\* The catch block of regenerateLayer and the WebGL fallback after it.
regenerateLayerCatch(s, stale) ==
  LET s1 == logActiveRenderer(s, "renderer: webgpu (fallback: webgl)")
  IN [useWebGLCallback(s1) EXCEPT
        !.micro = Append(@, LogEntry("renderer: webgl", Str(S_webgpu), "webgl",
                                     TRUE, stale))]

\* The last statement of regenerateLayer: the log line, then the return.
regenerateLayerEnd(s, m) == logActiveRenderer(s, m.label)

\* ------------------------------------------------- instrumentation activator
enablePerformanceTracking(s, mode) ==
  [s EXCEPT !.perf =
     IF mode = Str(S_webgl) THEN "webgl"
     ELSE IF mode = Str(S_webgpu) THEN "webgpu_loading"
     ELSE "canvas",
            !.trace = Append(@, [e |-> "enable", mode |-> mode])]

\* ----------------------------------------------------------- the callbacks
Called(s, id, v, initial) ==
  LET c == s.cb[id]
  IN [s EXCEPT !.cb[id] =
        [init |-> IF initial /\ c.init < CallCap THEN c.init + 1 ELSE c.init,
         first |-> IF c.first # "none" THEN c.first
                   ELSE IF initial THEN "initial" ELSE "change",
         last |-> [v |-> v, initial |-> initial]],
               !.trace = Append(@, [e |-> "call", id |-> id, v |-> v,
                                    initial |-> initial])]

\* Mutant: the 'renderer' callback re-evaluates whatever 'performance' holds.
rendererCallback_noReload(s, value, initial) == regenerateLayer(s)

\* Mutant: the 'renderer' callback reloads on its initial invocation too.
rendererCallback_reloadOnInitial(s, value, initial) ==
  IF Truthy(getGuiParameterValue(s, "performance"))
  THEN [s EXCEPT !.reload = TRUE]
  ELSE regenerateLayer(s)

rendererCallback(s, value, initial) ==
  IF Truthy(getGuiParameterValue(s, "performance")) /\ ~initial
  THEN [s EXCEPT !.reload = TRUE]
  ELSE regenerateLayer(s)

\* Mutant: tracking is enabled on the running page when the value becomes true.
performanceCallback_liveEnable(s, value, initial) ==
  IF Truthy(value)
  THEN LET g == getGuiParameterValue(s, "renderer")
       IN enablePerformanceTracking(s, IF Truthy(g) THEN g ELSE Str(S_canvas))
  ELSE IF ~initial THEN [s EXCEPT !.reload = TRUE]
  ELSE s

performanceCallback(s, value, initial) ==
  IF Truthy(value) /\ initial
  THEN LET g == getGuiParameterValue(s, "renderer")
       IN enablePerformanceTracking(s, IF Truthy(g) THEN g ELSE Str(S_canvas))
  ELSE IF ~initial THEN [s EXCEPT !.reload = TRUE]
  ELSE s

\* resetData rebuilds the sample features, which the model does not hold.
geometryCallback(s, value, initial) ==
  IF ~initial THEN regenerateLayer(s) ELSE s

countCallback(s, value, initial) == s

\* The callback registered with a function parameter.
actionCallback(s, value, initial) == s

Callback(s, id, v, initial) ==
  LET s1 == Called(s, id, v, initial)
  IN CASE id = "renderer" -> rendererCallback(s1, v, initial)
       [] id = "performance" -> performanceCallback(s1, v, initial)
       [] id = "geometry" -> geometryCallback(s1, v, initial)
       [] id = "count" -> countCallback(s1, v, initial)
       [] id = ActionId -> actionCallback(s1, v, initial)

\* ------------------------------------------------------ parameter registry
\* Mutant: the token returned by link.track is not used.
initialValueOf_ignoresUrl(id, initialLinkValue) == DefaultValue(id)

\* Lines 357-362: the initial value of a toggle or numeric parameter.
initialValueOf(id, initialLinkValue) ==
  IF initialLinkValue # Null
  THEN (IF Values(id)[1].t = "num" THEN parseFloat(initialLinkValue)
        ELSE Bool(initialLinkValue = Values(id)[1]))
  ELSE DefaultValue(id)

\* The handler registerGuiParameter gives to link.track.
trackHandler(s, id, value) ==
  Callback(s, id,
           IF Values(id)[1].t = "num" THEN parseFloat(value)
           ELSE Bool(value = Values(id)[1]),
           FALSE)

\* Mutant: the initial callback invocation is left out.
registerGuiParameter_noInitialCall(s, id) ==
  LET s1 == LinkTrack(s, id)
      initialValue == initialValueOf(id, s.url[id])
  IN [s1 EXCEPT !.guiParams[id] =
        IF DefaultValue(id).t = "fn" THEN DefaultValue(id) ELSE initialValue]

registerGuiParameter(s, id) ==
  LET s1 == LinkTrack(s, id)
      initialValue == initialValueOf(id, s.url[id])
      s2 == [s1 EXCEPT !.guiParams[id] =
               IF DefaultValue(id).t = "fn" THEN DefaultValue(id) ELSE initialValue]
  IN Callback(s2, id, initialValue, TRUE)

\* The widget's onFinishChange (numeric) and onChange (toggle) handlers.
\* Mutant: the numeric handler writes the token of the default value.
finishChangeHandler_writesDefault(s, id, rawValue) ==
  Callback(LinkUpdate(s, id, toString(DefaultValue(id))), id, rawValue, FALSE)

finishChangeHandler(s, id, rawValue) ==
  Callback(LinkUpdate(s, id, toString(rawValue)), id, rawValue, FALSE)

\* Mutant: the toggle's handler does not write the URL.
changeHandler_noUpdate(s, id, rawValue) == Callback(s, id, rawValue, FALSE)

changeHandler(s, id, rawValue) ==
  LET newValue == IF Truthy(rawValue) THEN Values(id)[1].s ELSE Values(id)[2].s
  IN Callback(LinkUpdate(s, id, newValue), id, rawValue, FALSE)

\* Lines 437-439: the initial value of a select parameter.
selectInitialValue(id, fromUrl) ==
  IF Truthy(fromUrl) /\ fromUrl.s \in Options(id) THEN fromUrl ELSE DefaultValue(id)

registerGuiSelectParameter(s, id) ==
  LET initialValue == selectInitialValue(id, s.url[id])
      s1 == [s EXCEPT !.guiParams[id] = initialValue]
      s2 == Callback(s1, id, initialValue, TRUE)
  IN LinkTrack(s2, id)

\* Mutant: the tracked handler does not store the new value before the callback.
selectTrackHandler_noStore(s, id, value) ==
  IF ~(value.t = "str" /\ value.s \in Options(id)) THEN s
  ELSE Callback(s, id, value, FALSE)

\* The handler registerGuiSelectParameter gives to link.track.
selectTrackHandler(s, id, value) ==
  IF ~(value.t = "str" /\ value.s \in Options(id)) THEN s
  ELSE Callback([s EXCEPT !.guiParams[id] = value], id, value, FALSE)

\* Mutant: the select's handler calls the callback before it writes the URL.
selectFinishChangeHandler_callbackFirst(s, id, rawValue) ==
  LinkUpdate(Callback(s, id, rawValue, FALSE), id, rawValue.s)

selectFinishChangeHandler(s, id, rawValue) ==
  Callback(LinkUpdate(s, id, rawValue.s), id, rawValue, FALSE)

\* The widget writes the edited value into guiParams before its handlers run.
setValue(s, id, v) == [s EXCEPT !.guiParams[id] = v]

\* ----------------------------------------------------------------- actions
\* The end of a handler run: the page state it leaves, or, when it called
\* location.reload(), a fresh load of the URL it leaves.
Commit(s, pc) ==
  LET n == IF s.reload THEN Fresh(s.url) ELSE s
  IN /\ Len(n.tasks) <= MaxTasks
     /\ url' = n.url
     /\ tracked' = n.tracked
     /\ guiParams' = n.guiParams
     /\ changed' = n.changed
     /\ layers' = n.layers
     /\ tasks' = n.tasks
     /\ micro' = n.micro
     /\ perf' = n.perf
     /\ cb' = n.cb
     /\ note' = n.note
     /\ mainpc' = IF s.reload THEN "start" ELSE pc
     /\ UNCHANGED <<touched, gpu, debugRenderer>>

Init ==
  /\ touched \in {T \in SUBSET QueryKeys : Cardinality(T) <= MaxTouched}
  /\ url \in {u \in [Ids -> UNION {UrlTokens(i) : i \in Ids}] :
                \A i \in Ids : /\ u[i] \in UrlTokens(i)
                               /\ i \notin touched => u[i] = Null}
  /\ gpu \in {"absent", "available", "broken"}
  /\ debugRenderer = ("debugRenderer" \in touched)
  /\ tracked = Fresh(url).tracked
  /\ guiParams = Fresh(url).guiParams
  /\ changed = FALSE
  /\ layers = <<>>
  /\ tasks = <<>>
  /\ micro = <<>>
  /\ perf = "off"
  /\ cb = Fresh(url).cb
  /\ note = Null
  /\ mainpc = "start"

\* main(): createMap, initializeGui, the case's own parameters, resetData.
CreateMap == mainpc = "start" /\ Commit(Cur, "created")

RegisterRenderer ==
  mainpc = "created" /\ Commit(registerGuiSelectParameter(Cur, "renderer"), "renderer")

RegisterPerformance ==
  mainpc = "renderer" /\ Commit(registerGuiParameter(Cur, "performance"), "performance")

RegisterGeometry ==
  mainpc = "performance" /\ Commit(registerGuiSelectParameter(Cur, "geometry"), "geometry")

RegisterCount ==
  mainpc = "geometry" /\ Commit(registerGuiParameter(Cur, "count"), "count")

MainEnd == mainpc = "count" /\ Commit(Cur, "done")

\* An event is handled only when main() has returned and no microtask waits.
Idle == mainpc = "done" /\ micro = <<>>

\* A user or navigation event on parameter id.
Event(id) == Idle /\ id \in touched

\* The handler runs of the events below, from the current page state: the
\* widget stores the edited value, then calls the handler registered on it;
\* Link stores the token of the new URL, then calls the tracked handler.
SelectEditRun(id, v) ==
  selectFinishChangeHandler(setValue(Cur, id, Str(v)), id, Str(v))

ToggleEditRun(id) ==
  LET raw == Bool(~guiParams[id].b)
  IN changeHandler(setValue(Cur, id, raw), id, raw)

\* A drag step of the numeric widget, and its release, from page state s.
NumberDragStep(s, id, v) == [setValue(s, id, v) EXCEPT !.changed = TRUE]

NumberFinishStep(s, id) ==
  finishChangeHandler([s EXCEPT !.changed = FALSE], id, s.guiParams[id])

NumberFinishRun(id) == NumberFinishStep(Cur, id)

NumberDragRun(id, v) == NumberDragStep(Cur, id, v)

PopStateRun(id, tok) ==
  LET s1 == [Cur EXCEPT !.url[id] = tok, !.tracked[id] = tok]
  IN IF id \in SelectIds THEN selectTrackHandler(s1, id, tok)
     ELSE trackHandler(s1, id, tok)

\* The user picks another option of a select widget.
SelectEdit(id, v) ==
  /\ Event(id)
  /\ Str(v) # guiParams[id]
  /\ Commit(SelectEditRun(id, v), "done")

\* The user toggles the checkbox.
ToggleEdit(id) ==
  /\ Event(id)
  /\ Commit(ToggleEditRun(id), "done")

\* The user drags the slider to another value, then releases it.
NumberDrag(id, v) ==
  /\ Event(id)
  /\ v # guiParams[id]
  /\ Commit(NumberDragRun(id, v), "done")

NumberFinish(id) ==
  /\ Event(id)
  /\ changed
  /\ Commit(NumberFinishRun(id), "done")

\* History navigation to a URL that differs in the entry of one parameter:
\* Link calls the handler tracked for it with the new token.
PopState(id, tok) ==
  /\ Event(id)
  /\ tok # url[id]
  /\ Commit(PopStateRun(id, tok), "done")

RemoveAt(q, i) == SubSeq(q, 1, i - 1) \o SubSeq(q, i + 1, Len(q))

\* The dynamic import of a pending WebGPU construction completes and the
\* builder adds its layer; regenerateLayer resumes in a microtask.
ImportResolve(i) ==
  /\ Idle
  /\ gpu = "available"
  /\ i \in DOMAIN tasks
  /\ Commit([useWebGPUCallback(Cur) EXCEPT
               !.tasks = RemoveAt(tasks, i),
               !.micro = Append(@, LogEntry("renderer: webgpu", Str(S_webgpu), "webgpu",
                                            FALSE, tasks[i].stale))],
            "done")

\* The import is rejected, or the layer constructor throws.
ImportReject(i) ==
  /\ Idle
  /\ gpu \in {"available", "broken"}
  /\ i \in DOMAIN tasks
  /\ Commit([Cur EXCEPT !.tasks = RemoveAt(tasks, i),
                        !.micro = Append(@, [k |-> "catch", stale |-> tasks[i].stale])],
            "done")

RunMicrotask ==
  /\ mainpc = "done"
  /\ micro # <<>>
  /\ LET m == Head(micro)
         s == [Cur EXCEPT !.micro = Tail(micro)]
     IN Commit(IF m.k = "catch" THEN regenerateLayerCatch(s, m.stale)
               ELSE regenerateLayerEnd(s, m), "done")

\* The imports of enablePerformanceTracking('webgpu') complete.
PerfImportDone(ok) ==
  /\ Idle
  /\ perf = "webgpu_loading"
  /\ Commit([Cur EXCEPT !.perf = IF ok THEN "webgpu" ELSE "webgpu_failed"], "done")

Next ==
  \/ CreateMap
  \/ RegisterRenderer
  \/ RegisterPerformance
  \/ RegisterGeometry
  \/ RegisterCount
  \/ MainEnd
  \/ \E id \in SelectIds : \E v \in Options(id) : SelectEdit(id, v)
  \/ ToggleEdit("performance")
  \/ \E v \in DragValues : NumberDrag("count", v)
  \/ NumberFinish("count")
  \/ \E id \in Ids : \E tok \in UrlTokens(id) : PopState(id, tok)
  \/ \E i \in 1..MaxTasks : ImportResolve(i)
  \/ \E i \in 1..MaxTasks : ImportReject(i)
  \/ RunMicrotask
  \/ \E ok \in BOOLEAN : PerfImportDone(ok)

Spec == Init /\ [][Next]_vars

\* The event loop runs the queued microtasks, and every WebGPU construction
\* that was started completes: its promise resolves or rejects.
FairSpec ==
  /\ Spec
  /\ WF_vars(RunMicrotask)
  /\ WF_vars(\E i \in 1..MaxTasks : ImportResolve(i) \/ ImportReject(i))

\* ------------------------------------------------------------------ claims
WebGPURequested == Str(S_webgpu)

\* The log continuations waiting in the microtask queue: each stands for a
\* builder call that has just been made.
BuilderCalls == {micro[i] : i \in {j \in DOMAIN micro : micro[j].k = "log"}}

\* C1: in every reachable state the map's layer collection holds at most one
\* rendering layer.
C1_AtMostOneLayer == Len(layers) <= 1

\* C2: the layer of a WebGPU attempt (its WebGPU layer, or its WebGL fallback)
\* is never added to the map once a newer re-evaluation has started.
C2_NoStaleResultApplied == \A m \in BuilderCalls : ~m.stale

\* C3: whenever no re-evaluation is in flight, the attached layer is the one
\* of the requested mode (canvas: the canvas layer, webgl: the WebGL layer,
\* webgpu: the WebGPU layer or its WebGL fallback), and the URL never shows
\* "webgpu" while only a canvas layer is attached.
C3_BackendAgreesWithMode ==
  (mainpc = "done" /\ tasks = <<>> /\ micro = <<>>) =>
    /\ guiParams["renderer"] = Str(S_canvas) => layers = <<"VectorLayer">>
    /\ guiParams["renderer"] = Str(S_webgl) => layers = <<"WebGLVectorLayer">>
    /\ guiParams["renderer"] = Str(S_webgpu) =>
         layers \in {<<"WebGPUVectorLayer">>, <<"WebGLVectorLayer">>}
    /\ url["renderer"] = Str(S_webgpu) => layers # <<"VectorLayer">>

\* C4: when the WebGPU constructor always fails, a re-evaluation with requested
\* mode webgpu ends with exactly one WebGL layer and no WebGPU layer attached.
C4_FailedWebGPUEndsWithOneWebGL ==
  \A m \in BuilderCalls :
    (gpu = "broken" /\ m.req = WebGPURequested /\ m.failed) =>
      layers = <<"WebGLVectorLayer">>

\* C5 as stated: with requested mode webgpu and no WebGPU builder supplied, the
\* re-evaluation calls the canvas builder and not the WebGL builder.
C5_AbsentWebGPUUsesCanvas ==
  \A m \in BuilderCalls :
    (gpu = "absent" /\ m.req = WebGPURequested) =>
      m.builder = "canvas" /\ layers = <<"VectorLayer">>

\* C5 amended: with requested mode webgpu and no WebGPU builder supplied, the
\* re-evaluation starts no WebGPU attempt and calls the WebGL builder, not the
\* canvas builder: the WebGL layer is the only layer attached.
C5_AbsentWebGPUUsesWebGL ==
  \A m \in BuilderCalls :
    (gpu = "absent" /\ m.req = WebGPURequested) =>
      /\ m.builder = "webgl"
      /\ ~m.failed
      /\ tasks = <<>>
      /\ layers = <<"WebGLVectorLayer">>

C5_Witness ==
  /\ gpu = "absent"
  /\ mainpc = "done"
  /\ guiParams["renderer"] = Str(S_webgpu)
  /\ \E m \in BuilderCalls : m.req = WebGPURequested /\ m.builder = "webgl"
  /\ layers = <<"WebGLVectorLayer">>

\* C6: as long as every re-evaluation of the session requested the same mode
\* (the 'renderer' callback ran only initially, so the mode never changed), the
\* layer collection never holds more than one rendering layer.
C6_SameModeOneLayer ==
  (cb["renderer"].last # Null /\ cb["renderer"].last.initial) => Len(layers) <= 1

\* The declared domain of a parameter, as the specification of the URL
\* encoding states it: an option token for a select, one of the two tokens for
\* a toggle, a base 10 number inside the range for a numeric parameter.
Decimal(tok) ==
  CASE tok = Str(S_1) -> 1
    [] tok = Str(S_10) -> 10
    [] tok = Str(S_20000) -> 20000
    [] tok = Str(S_500) -> 500
    [] tok = Str(S_750) -> 750
    [] tok = Str(S_50000) -> 50000
    [] OTHER -> -1

InDomain(id, tok) ==
  IF id \in SelectIds THEN tok.t = "str" /\ tok.s \in Options(id)
  ELSE IF Values(id)[1].t = "num"
  THEN Decimal(tok) >= Values(id)[1].n /\ Decimal(tok) <= Values(id)[2].n
  ELSE tok = Values(id)[1] \/ tok = Values(id)[2]

Decoded(id, tok) ==
  IF id \in SelectIds THEN tok
  ELSE IF Values(id)[1].t = "num" THEN Num(Decimal(tok))
  ELSE Bool(tok = Values(id)[1])

\* mainpc = id is the state in which the registration call of id returns.
InitialCall(id, v) ==
  /\ guiParams[id] = v
  /\ cb[id].last = [v |-> v, initial |-> TRUE]

\* C7: registering a parameter whose URL token does not decode or lies outside
\* the declared domain yields the default as initial value, and the callback
\* receives onChange(default, true).
C7_InvalidTokenYieldsDefault ==
  \A id \in Ids :
    (mainpc = id /\ url[id] # Null /\ ~InDomain(id, url[id])) =>
      InitialCall(id, DefaultValue(id))

\* C8: registering a parameter whose URL token is valid and in the declared
\* domain yields the decoded token as initial live value, and the callback
\* receives onChange(decoded, true).
C8_ValidTokenYieldsDecoded ==
  \A id \in Ids :
    (mainpc = id /\ url[id] # Null /\ InDomain(id, url[id])) =>
      InitialCall(id, Decoded(id, url[id]))

C8_Witness ==
  /\ mainpc = "count"
  /\ url["count"] = Str(S_500)
  /\ guiParams["count"] = Num(500)
  /\ DefaultValue("count") = Num(10)
  /\ cb["count"].last = [v |-> Num(500), initial |-> TRUE]

\* The positions of main(), in order.
MainOrder == <<"start", "created", "renderer", "performance", "geometry", "count", "done">>

Pos(pc) == CHOOSE i \in DOMAIN MainOrder : MainOrder[i] = pc

\* C9: when a registration call returns, its callback has been invoked with
\* isInitial = true exactly once, and that was the first invocation for the
\* parameter; nothing is invoked for a parameter before its registration, and
\* the count stays at one for the rest of the session.
C9_InitialCallbackExactlyOnce ==
  \A id \in Ids :
    IF Pos(mainpc) >= Pos(id)
    THEN cb[id].init = 1 /\ cb[id].first = "initial"
    ELSE cb[id] = NoCalls

C9_Witness ==
  /\ mainpc = "done"
  /\ \E id \in Ids : cb[id].init = 1 /\ cb[id].last # Null /\ ~cb[id].last.initial

\* C10 as stated: the initial callback of 'renderer' has attached the backend
\* layer, with nothing left outstanding, when the next parameter is registered.
C10_LayerAttachedBeforeNextRegistration ==
  mainpc = "renderer" => Len(layers) = 1 /\ tasks = <<>>

\* C10 amended: when the registration of 'renderer' returns, its initial
\* callback has run up to its first suspension.  With mode canvas or webgl, or
\* webgpu without a WebGPU builder, the layer of the mode is attached and only
\* the log line is outstanding; with mode webgpu and a WebGPU builder the layer
\* collection is empty and the construction is still outstanding.
C10_InitialCallbackRunsToFirstAwait ==
  mainpc = "renderer" =>
    /\ cb["renderer"].last = [v |-> guiParams["renderer"], initial |-> TRUE]
    /\ IF guiParams["renderer"] = Str(S_webgpu) /\ gpu # "absent"
       THEN layers = <<>> /\ tasks = <<[stale |-> FALSE]>> /\ micro = <<>>
       ELSE /\ tasks = <<>>
            /\ Len(micro) = 1
            /\ layers = IF guiParams["renderer"] = Str(S_canvas)
                        THEN <<"VectorLayer">> ELSE <<"WebGLVectorLayer">>

C10_Witness ==
  /\ mainpc = "renderer"
  /\ guiParams["renderer"] = Str(S_webgpu)
  /\ gpu = "available"
  /\ layers = <<>>
  /\ Len(tasks) = 1

\* The calls of one kind a handler run has made, in order.
TraceOf(r, kind) == SelectSeq(r.trace, LAMBDA x : x.e = kind)

CallEvent(id, v, initial) == [e |-> "call", id |-> id, v |-> v, initial |-> initial]

\* C11: when history navigation delivers an in-domain token for a registered
\* parameter, then, if its decoded value differs from the live value, the live
\* value becomes the decoded value and onChange(decoded, false) is called; if
\* it equals the live value, onChange is not called.
C11_UrlChangeUpdatesLiveValue ==
  \A id \in Ids : \A tok \in UrlTokens(id) :
    (Event(id) /\ tok # url[id] /\ InDomain(id, tok)) =>
      LET r == PopStateRun(id, tok)
      IN IF Decoded(id, tok) # guiParams[id]
         THEN /\ r.guiParams[id] = Decoded(id, tok)
              /\ TraceOf(r, "call") = <<CallEvent(id, Decoded(id, tok), FALSE)>>
         ELSE TraceOf(r, "call") = <<>>

\* C12: when history navigation delivers, for a registered parameter, a token
\* that does not decode or lies outside the declared domain, the live value is
\* unchanged and onChange is not called.
C12_InvalidUrlChangeIgnored ==
  \A id \in Ids : \A tok \in UrlTokens(id) :
    (Event(id) /\ tok # url[id] /\ ~InDomain(id, tok)) =>
      LET r == PopStateRun(id, tok)
      IN r.guiParams[id] = guiParams[id] /\ TraceOf(r, "call") = <<>>

UpdateEvent(id, tok) == [e |-> "update", id |-> id, tok |-> tok]

\* The decimal token of a number of the model.
TokenOf(v) ==
  CHOOSE tok \in {Str(S_1), Str(S_10), Str(S_500), Str(S_750), Str(S_20000), Str(S_50000)} :
    Decimal(tok) = v.n

\* Drags through two values before the release.
DragPaths == {<<Num(500), Num(750)>>, <<Num(750), Num(10)>>}

\* C13: a toggle's handler run writes the URL entry once, with the token of
\* the new value; a drag step of the numeric widget writes nothing to the URL;
\* the release writes the URL entry exactly once, with the value the widget
\* holds at the release, also after a drag through several values.
C13_UrlWrittenAtToggleAndAtRelease ==
  /\ Event("performance") =>
       LET r == ToggleEditRun("performance")
           tok == IF guiParams["performance"] = Bool(TRUE) THEN Str(S_no) ELSE Str(S_yes)
       IN /\ TraceOf(r, "update") = <<UpdateEvent("performance", tok)>>
          /\ r.url["performance"] = tok
  /\ \A v \in DragValues :
       (Event("count") /\ v # guiParams["count"]) =>
         LET r == NumberDragRun("count", v)
         IN r.url = url /\ r.trace = <<>> /\ r.guiParams["count"] = v
  /\ (Event("count") /\ changed) =>
       LET r == NumberFinishRun("count")
       IN /\ TraceOf(r, "update") = <<UpdateEvent("count", TokenOf(guiParams["count"]))>>
          /\ r.url["count"] = TokenOf(guiParams["count"])
  /\ \A path \in DragPaths :
       Event("count") =>
         LET s2 == NumberDragStep(NumberDragStep(Cur, "count", path[1]), "count", path[2])
             r == NumberFinishStep(s2, "count")
         IN /\ s2.url = url /\ s2.trace = <<>>
            /\ TraceOf(r, "update") = <<UpdateEvent("count", TokenOf(path[2]))>>
            /\ r.url["count"] = TokenOf(path[2])

\* A released drag: the URL carries the value the widget was dragged to, which
\* no URL of a page load holds.
C13_Witness ==
  /\ mainpc = "done"
  /\ ~changed
  /\ guiParams["count"] = Num(750)
  /\ url["count"] = Str(S_750)
  /\ cb["count"].last = [v |-> Num(750), initial |-> FALSE]

\* The URL writes and callback invocations of a handler run, in order.
WritesAndCalls(r) == SelectSeq(r.trace, LAMBDA x : x.e \in {"update", "call"})

\* P holds of every local edit enabled in the current state: P is given the
\* parameter, the new value, its token, and the run of the widget's handler.
EveryLocalEdit(P(_, _, _, _)) ==
  /\ \A id \in SelectIds :
       Event(id) =>
         \A o \in Options(id) :
           Str(o) # guiParams[id] => P(id, Str(o), Str(o), SelectEditRun(id, o))
  /\ Event("performance") =>
       P("performance", Bool(~guiParams["performance"].b),
         IF guiParams["performance"].b THEN Str(S_no) ELSE Str(S_yes),
         ToggleEditRun("performance"))
  /\ (Event("count") /\ changed) =>
       P("count", guiParams["count"], TokenOf(guiParams["count"]),
         NumberFinishRun("count"))

CallbackThenUrlWrite(id, v, tok, r) ==
  WritesAndCalls(r) = <<CallEvent(id, v, FALSE), UpdateEvent(id, tok)>>

UrlWriteThenCallback(id, v, tok, r) ==
  WritesAndCalls(r) = <<UpdateEvent(id, tok), CallEvent(id, v, FALSE)>>

\* C14 as stated: on every local widget edit onChange(newValue, false) is
\* called first and the token is written to the URL afterwards.
C14_CallbackBeforeUrlWrite == EveryLocalEdit(CallbackThenUrlWrite)

\* C14 amended: on every local widget edit the token of the new value is
\* written to the URL first and onChange(newValue, false) is called afterwards,
\* each exactly once.
C14_UrlWriteBeforeCallback == EveryLocalEdit(UrlWriteThenCallback)

\* A finished local edit of 'geometry': polygon is in no URL of a page load.
C14_Witness ==
  /\ mainpc = "done"
  /\ url["geometry"] = Str(S_polygon)
  /\ guiParams["geometry"] = Str(S_polygon)
  /\ cb["geometry"].last = [v |-> Str(S_polygon), initial |-> FALSE]

RegenerateEvent(requested) == [e |-> "regenerate", requested |-> requested]

\* P holds of every change of 'renderer' enabled in the current state, by
\* widget edit and by history navigation: P is given the new value and the run
\* of the handler.
EveryRendererChange(P(_, _)) ==
  Event("renderer") =>
    /\ \A o \in Options("renderer") :
         Str(o) # guiParams["renderer"] => P(Str(o), SelectEditRun("renderer", o))
    /\ \A tok \in UrlTokens("renderer") :
         (tok # url["renderer"] /\ InDomain("renderer", tok)) =>
           P(tok, PopStateRun("renderer", tok))

ReadsNewValue(v, r) ==
  /\ \A i \in DOMAIN r.trace :
       r.trace[i].e = "regenerate" => r.trace[i].requested = v
  /\ ~r.reload => TraceOf(r, "regenerate") = <<RegenerateEvent(v)>>

\* C15: a renderer re-evaluation started by a change of 'renderer' (widget
\* edit or history navigation) reads the new value of that change as requested
\* mode: the handler run that does not reload the page starts one
\* re-evaluation, and its requested mode is the new value.
C15_ReEvaluationReadsNewValue == EveryRendererChange(ReadsNewValue)

\* A change of 'renderer' to webgl on a running page whose re-evaluation has
\* called the WebGL builder for requested mode webgl.
C15_Witness ==
  /\ mainpc = "done"
  /\ cb["renderer"].last = [v |-> Str(S_webgl), initial |-> FALSE]
  /\ \E m \in BuilderCalls : m.req = Str(S_webgl) /\ m.builder = "webgl"
  /\ layers = <<"WebGLVectorLayer">>

\* P holds of the run of every change of 'performance' enabled in the current
\* state, by widget edit and by history navigation.
EveryPerformanceChange(P(_)) ==
  Event("performance") =>
    /\ P(ToggleEditRun("performance"))
    /\ \A tok \in UrlTokens("performance") :
         tok # url["performance"] => P(PopStateRun("performance", tok))

ReloadsWithoutEnabling(r) ==
  r.reload /\ r.perf = perf /\ TraceOf(r, "enable") = <<>>

\* C16: every change of 'performance' on a running page reloads the page and
\* leaves the tracking state of the running page as it was; tracking is on
\* only when the one initial callback of 'performance' received true, and the
\* registration of 'performance' enables it at most once, exactly when the
\* URL token is the token of true.
C16_PerformanceChangeReloads ==
  /\ EveryPerformanceChange(ReloadsWithoutEnabling)
  /\ perf # "off" =>
       /\ Pos(mainpc) >= Pos("performance")
       /\ cb["performance"].init = 1
       /\ cb["performance"].last = [v |-> Bool(TRUE), initial |-> TRUE]
  /\ mainpc = "renderer" =>
       LET r == registerGuiParameter(Cur, "performance")
       IN TraceOf(r, "enable") =
            IF url["performance"] = Str(S_yes)
            THEN <<[e |-> "enable", mode |-> guiParams["renderer"]]>>
            ELSE <<>>

\* The page reloaded by a change of 'performance' to true: the URL carries a
\* count that only a released drag on the running page writes, and main() of
\* the new page has not started yet.
C16_Witness ==
  /\ mainpc = "start"
  /\ url["performance"] = Str(S_yes)
  /\ url["count"] = Str(S_750)
  /\ "renderer" \notin touched
  /\ perf = "off"

\* What the URL entry of an unregistered id reads as: its number, the boolean
\* of the literals true and false, the entry itself, or null for none.
ReadFromUrl(tok) ==
  IF tok = Null \/ tok = Str(<<>>) THEN Null
  ELSE IF Decimal(tok) >= 0 THEN Num(Decimal(tok))
  ELSE IF tok = Str(S_true) THEN Bool(TRUE)
  ELSE IF tok = Str(S_false) THEN Bool(FALSE)
  ELSE tok

\* Entries a URL can hold besides those of the page loads of the model.
OtherTokens == {Str(<<>>), Str(S_true), Str(S_false), Str(S_750), Str(S_webgl)}

\* C17: getGuiParameterValue(id) returns the live value of a registered id;
\* for an id not registered it returns the URL entry read as a number, else as
\* the boolean of 'true' / 'false', else as the non-empty string itself, and
\* null when there is no entry or an empty one.
C17_CurrentValueOrUrlRead ==
  \A id \in Ids :
    IF guiParams[id] # Absent
    THEN getGuiParameterValue(Cur, id) = guiParams[id]
    ELSE /\ getGuiParameterValue(Cur, id) = ReadFromUrl(url[id])
         /\ \A tok \in OtherTokens :
              getGuiParameterValue([Cur EXCEPT !.url[id] = tok], id) = ReadFromUrl(tok)

\* The initial callback of 'renderer' has read 'performance', which is not
\* registered yet, from a URL whose entry is the literal true.
C17_Witness ==
  /\ mainpc = "renderer"
  /\ guiParams["performance"] = Absent
  /\ guiParams["renderer"] # Absent
  /\ url["performance"] = Str(S_true)
  /\ getGuiParameterValue(Cur, "performance") = Bool(TRUE)
  /\ cb["renderer"].last # Null

\* Values and tokens of the declared domains: the options of a select, the two
\* values of a toggle, and numbers of the range of the numeric parameter (its
\* ends, its default and values between).
DomainValues(id) ==
  IF id \in SelectIds THEN {Str(o) : o \in Options(id)}
  ELSE IF Values(id)[1].t = "num"
  THEN {Num(1), Num(10), Num(500), Num(750), Num(20000)}
  ELSE {Bool(TRUE), Bool(FALSE)}

DomainTokens(id) ==
  IF id \in SelectIds THEN {Str(o) : o \in Options(id)}
  ELSE IF Values(id)[1].t = "num"
  THEN {Str(S_1), Str(S_10), Str(S_500), Str(S_750), Str(S_20000)}
  ELSE {Str(S_yes), Str(S_no)}

\* encode: the token the local-edit handler of id writes for value v.
EncodedByEdit(id, v) ==
  LET s == setValue(Cur, id, v)
      r == IF id \in SelectIds THEN selectFinishChangeHandler(s, id, v)
           ELSE IF Values(id)[1].t = "num" THEN finishChangeHandler(s, id, v)
           ELSE changeHandler(s, id, v)
  IN r.url[id]

\* decode at hydration: the initial value the registration derives from tok.
DecodedAtLoad(id, tok) ==
  IF id \in SelectIds THEN selectInitialValue(id, tok) ELSE initialValueOf(id, tok)

\* decode on an external URL change: the value the tracked handler hands to
\* the callback for tok.
DecodedAtChange(id, tok) ==
  LET r == IF id \in SelectIds THEN selectTrackHandler(Cur, id, tok)
           ELSE trackHandler(Cur, id, tok)
  IN TraceOf(r, "call")[1].v

\* C18: once the parameters are registered, for every parameter the token the
\* local-edit handler writes for the value decoded from a token of the domain
\* is that token, and the value decoded from the token written for a value of
\* the domain is that value, for the decoding at hydration and for the
\* decoding on an external URL change.
C18_EncodingRoundTrips ==
  mainpc = "count" =>
    \A id \in Ids :
      /\ \A tok \in DomainTokens(id) :
           /\ EncodedByEdit(id, DecodedAtLoad(id, tok)) = tok
           /\ EncodedByEdit(id, DecodedAtChange(id, tok)) = tok
      /\ \A v \in DomainValues(id) :
           /\ DecodedAtLoad(id, EncodedByEdit(id, v)) = v
           /\ DecodedAtChange(id, EncodedByEdit(id, v)) = v

\* A round trip on the page: the release of a drag wrote 750, a change of
\* 'performance' reloaded the page, and the registration of 'count' has
\* decoded the token to 750 again.
C18_Witness ==
  /\ mainpc = "count"
  /\ url["count"] = Str(S_750)
  /\ guiParams["count"] = Num(750)
  /\ cb["count"].last = [v |-> Num(750), initial |-> TRUE]

\* The map of a running page holds no layer only while the newest
\* re-evaluation waits for its WebGPU construction or for its catch block.
LayerOrPending ==
  (mainpc = "done" /\ layers = <<>>) =>
    \/ \E i \in DOMAIN tasks : ~tasks[i].stale
    \/ \E i \in DOMAIN micro : micro[i].k = "catch" /\ ~micro[i].stale

\* A re-evaluation that resumes after a failed WebGPU construction has added
\* the WebGL layer.
FailureFallsBack ==
  \A m \in BuilderCalls :
    m.failed => (m.builder = "webgl" /\ layers # <<>>
                 /\ layers[Len(layers)] = "WebGLVectorLayer")

\* C19: when every WebGPU construction resolves or rejects, a running page
\* whose map holds no layer eventually has a layer attached (or is reloaded);
\* the map is without a layer only while the newest re-evaluation is still
\* waiting, and a failed WebGPU construction is followed by the WebGL layer.
C19_ReEvaluationSettlesWithLayer ==
  /\ [](LayerOrPending /\ FailureFallsBack)
  /\ (mainpc = "done" /\ layers = <<>>) ~> (layers # <<>> \/ mainpc # "done")

\* A failed WebGPU construction, not superseded, has ended with the WebGL
\* layer as the only layer of the map.
C19_Witness ==
  /\ mainpc = "done"
  /\ tasks = <<>>
  /\ \E m \in BuilderCalls : m.failed /\ ~m.stale /\ m.req = WebGPURequested
  /\ layers = <<"WebGLVectorLayer">>

ReloadsWithoutReEvaluation(v, r) ==
  /\ r.reload
  /\ TraceOf(r, "regenerate") = <<>>
  /\ r.layers = layers /\ r.tasks = tasks /\ r.micro = micro

ReloadsIffTracking(v, r) ==
  IF perf # "off" THEN ReloadsWithoutReEvaluation(v, r)
  ELSE ~r.reload /\ Len(TraceOf(r, "regenerate")) = 1

\* C20: while performance tracking is on, the handler run of a change of
\* 'renderer' on the running page reloads the page and runs no re-evaluation
\* (the layers and the pending constructions are untouched); while it is off,
\* the handler run does not reload and runs exactly one re-evaluation, and so
\* does the initial callback at the registration of 'renderer'.
C20_RendererChangeReloadsWhenTracking ==
  /\ EveryRendererChange(ReloadsIffTracking)
  /\ mainpc = "created" =>
       LET r == registerGuiSelectParameter(Cur, "renderer")
       IN ~r.reload /\ Len(TraceOf(r, "regenerate")) = 1

\* A running page with tracking on and a layer attached, on which the widget
\* edit of 'renderer' to webgl can happen and its handler run reloads the page.
C20_Witness ==
  /\ perf # "off"
  /\ layers # <<>>
  /\ Event("renderer")
  /\ guiParams["renderer"] # Str(S_webgl)
  /\ ReloadsWithoutReEvaluation(Str(S_webgl), SelectEditRun("renderer", S_webgl))

\* The layer the builder of the mode a log line reports attaches; the line of
\* a fallback reports the WebGL fallback.
LayerOfLabel(label) ==
  CASE label = "renderer: canvas" -> "VectorLayer"
    [] label = "renderer: webgl" -> "WebGLVectorLayer"
    [] label = "renderer: webgpu" -> "WebGPUVectorLayer"
    [] label = "renderer: webgpu (fallback: webgl)" -> "WebGLVectorLayer"

\* C21: every diagnostic line is printed after the builder of the mode it
\* reports has attached its layer: the layer the line names is the layer of
\* that mode, for a fallback line the WebGL layer.
C21_NotificationAfterSettling ==
  note # Null => note.layer = LayerOfLabel(note.label)

\* The page state with one more parameter id, whose URL entry is tok.
WithAction(s, tok) ==
  [s EXCEPT !.url = [k \in Ids \cup {ActionId} |-> IF k = ActionId THEN tok ELSE s.url[k]],
            !.tracked = [k \in Ids \cup {ActionId} |-> IF k = ActionId THEN Absent ELSE s.tracked[k]],
            !.guiParams = [k \in Ids \cup {ActionId} |-> IF k = ActionId THEN Absent ELSE s.guiParams[k]],
            !.cb = [k \in Ids \cup {ActionId} |-> IF k = ActionId THEN NoCalls ELSE s.cb[k]]]

\* Tokens the URL may hold under the id of the function parameter.
ActionTokens == {Null, Str(S_yes), Str(S_1)}

\* Lines 386-388: no handler is registered on the widget of a function
\* parameter, so its activation runs no code of the registry.
ActionActivateRun(s) == s

\* History navigation changes the URL entry of the function parameter: Link
\* stores the token and calls the handler tracked at line 354.
ActionPopStateRun(s, tok) ==
  trackHandler([s EXCEPT !.url[ActionId] = tok, !.tracked[ActionId] = tok],
               ActionId, tok)

\* Neither a URL write for the id nor a callback invocation with
\* isInitial = false happened in the run that ends in r.
NoWriteNoChangeCall(r) ==
  /\ \A i \in DOMAIN r.trace :
        ~(r.trace[i].e = "update" /\ r.trace[i].id = ActionId)
  /\ \A i \in DOMAIN r.trace :
        ~(r.trace[i].e = "call" /\ r.trace[i].id = ActionId /\ ~r.trace[i].initial)

\* C22: for a parameter registered with a function value, no URL entry is
\* written for its id and its callback is not invoked with isInitial = false,
\* by the registration, by activations of its widget and by external changes
\* of the URL.
C22_ActionNeverWrittenNorCalledOnChange ==
  Idle =>
    \A tok0 \in ActionTokens : \A tok \in ActionTokens \ {tok0} :
      LET registered == registerGuiParameter(WithAction(Cur, tok0), ActionId)
      IN /\ NoWriteNoChangeCall(ActionActivateRun(registered))
         /\ NoWriteNoChangeCall(ActionPopStateRun(ActionActivateRun(registered), tok))

\* C23: no step of the initialization reloads the page: until main() has
\* returned, no step takes the page back to the start of a load, whatever
\* 'renderer' and 'performance' tokens the URL holds.
C23_NoReloadDuringInitialization ==
  [][mainpc # "done" => mainpc' # "start"]_vars

\* initializeGui has run on a URL with a 'renderer' and a 'performance' token:
\* both callbacks were invoked with isInitial = true, tracking was enabled, and
\* the page was not reloaded.
C23_Witness ==
  /\ mainpc = "performance"
  /\ url["renderer"] = Str(S_webgl)
  /\ url["performance"] = Str(S_yes)
  /\ cb["renderer"].last = [v |-> Str(S_webgl), initial |-> TRUE]
  /\ cb["performance"].last = [v |-> Bool(TRUE), initial |-> TRUE]
  /\ perf # "off"

\* The layer a synchronous builder adds.
LayerOfBuilder(builder) ==
  IF builder = "canvas" THEN "VectorLayer" ELSE "WebGLVectorLayer"

\* A re-evaluation that made no WebGPU attempt has called a synchronous
\* builder: when its handler run ends, the layer of that builder is the only
\* layer of the map.
AttachedInTheSameRun ==
  \A m \in BuilderCalls :
    (~m.failed /\ m.builder \in {"canvas", "webgl"}) =>
      layers = <<LayerOfBuilder(m.builder)>>

\* Once the first re-evaluation has run, a handler finds the layer collection
\* empty only while the newest re-evaluation waits for a WebGPU construction
\* or for the catch block of one.
EmptyOnlyDuringWebGPUAttempt ==
  (mainpc \notin {"start", "created"} /\ layers = <<>>) =>
    \/ \E i \in DOMAIN tasks : ~tasks[i].stale
    \/ \E i \in DOMAIN micro : micro[i].k = "catch" /\ ~micro[i].stale

\* C24: a re-evaluation that does not attempt WebGPU (mode canvas or webgl, or
\* webgpu without a WebGPU builder) clears the layers and attaches its layer
\* in one handler run: no state between handler runs shows the layer
\* collection it has emptied.
C24_SynchronousReEvaluationIsAtomic ==
  AttachedInTheSameRun /\ EmptyOnlyDuringWebGPUAttempt

\* A change of 'renderer' on a running page has re-evaluated without a WebGPU
\* attempt (webgpu requested, no WebGPU builder): its run has ended, its log
\* line is still to come, and the WebGL layer is attached.
C24_Witness ==
  /\ mainpc = "done"
  /\ gpu = "absent"
  /\ cb["renderer"].last = [v |-> Str(S_webgpu), initial |-> FALSE]
  /\ \E m \in BuilderCalls : m.req = Str(S_webgpu) /\ m.builder = "webgl" /\ ~m.failed
  /\ layers = <<"WebGLVectorLayer">>

====
